---- MODULE Spec2Model ----
(***************************************************************************)
(* A model of src/main.rs of json_parser: the character cursor             *)
(* (WhitespaceSkippingIndexTrackingIter over std::str::Chars) and the      *)
(* recursive-descent rules JsonValue / JsonArray / JsonObject / JsonString *)
(* with the \u escape decoding.                                            *)
(*                                                                         *)
(* Characters are Unicode code points (naturals).  Option<T> is a sequence *)
(* of length at most one: None is <<>>, Some(x) is <<x>>.  A cursor is the *)
(* record [inner, previously_outputted_index]; inner is the std::str::Chars*)
(* iterator, i.e. the characters not yet taken from the source.            *)
(* Every method is an operator that takes the cursor and returns the       *)
(* method's value together with the cursor it leaves behind.               *)
(***************************************************************************)
EXTENDS Integers, Sequences, FiniteSets

VARIABLES input, i, op, arg, pre, out

vars == <<input, i, op, arg, pre, out>>

\* ---------------------------------------------------------------- bounds
\* longest input of Spec
MaxLen == 3
\* longest run of characters between the brackets in SpecEmpty
MaxWs == 3
\* longest string body in SpecString
MaxBody == 3

\* ------------------------------------------------------------ characters
TAB == 9
LF == 10
CR == 13
SPACE == 32
QUOTE == 34
COMMA == 44
SLASH == 47
COLON == 58
LBRACKET == 91
BACKSLASH == 92
RBRACKET == 93
LOWER_B == 98
LOWER_F == 102
LOWER_N == 110
LOWER_R == 114
LOWER_T == 116
LOWER_U == 117
LBRACE == 123
RBRACE == 125

\* ---------------------------------------------------------------- Option
None == << >>

Some(x) == <<x>>

is_json_whitespace_no_tab(c) == c \in {SPACE, LF, CR}

is_json_whitespace(c) == c \in {SPACE, LF, CR, TAB}

\* ------------------------------------------- impl CharIterator for Chars
\* std::iter::Iterator::next(self)
Chars_next(inner) ==
  IF inner = << >>
    THEN [out |-> None, inner |-> inner]
    ELSE [out |-> Some(Head(inner)), inner |-> Tail(inner)]

\* Peekable::next_if(&mut self.peekable(), func): self is &mut Chars, so
\* peekable() wraps the borrowed iterator in a temporary Peekable.  next_if
\* takes the next character from the Chars itself; when func rejects it the
\* character is put back into the temporary's `peeked` slot, and the
\* temporary is dropped at the end of the statement.  The Chars has
\* advanced either way.  func is given as the set of characters it accepts.
Chars_next_if(inner, accepted) ==
  IF inner = << >>
    THEN [out |-> None, inner |-> inner]
    ELSE IF Head(inner) \in accepted
      THEN [out |-> Some(Head(inner)), inner |-> Tail(inner)]
      ELSE [out |-> None, inner |-> Tail(inner)]

\* --------------------------------- WhitespaceSkippingIndexTrackingIter
new(ci) == [inner |-> ci, previously_outputted_index |-> None]

inc_index(index) ==
  IF index = None THEN Some(0) ELSE Some(index[1] + 1)

next_any(it) ==
  LET r == Chars_next(it.inner)
  IN  [out |-> r.out,
       it  |-> [inner |-> r.inner,
                previously_outputted_index |->
                  IF r.out # None
                    THEN inc_index(it.previously_outputted_index)
                    ELSE it.previously_outputted_index]]

RECURSIVE next_non_whitespace(_)
next_non_whitespace(it) ==
  LET r == next_any(it)
  IN  IF r.out = None THEN r
      ELSE IF ~is_json_whitespace(r.out[1]) THEN r
      ELSE next_non_whitespace(r.it)

\* the characters the closure |c| is_json_whitespace(*c) || *c == expected
\* accepts; only these five candidates can satisfy it
if_eq_accepted(expected) ==
  {c \in {SPACE, LF, CR, TAB, expected} :
     is_json_whitespace(c) \/ c = expected}

RECURSIVE next_non_whitespace_if_eq(_, _)
next_non_whitespace_if_eq(it, expected) ==
  LET r  == Chars_next_if(it.inner, if_eq_accepted(expected))
      jt == [it EXCEPT !.inner = r.inner]
  IN  IF r.out = None THEN [out |-> None, it |-> jt]
      ELSE IF is_json_whitespace(r.out[1])
        THEN next_non_whitespace_if_eq(jt, expected)
        ELSE [out |-> r.out, it |-> jt]

\* ------------------------------------------------------------ ParseError
\* a panic (todo!(), unwrap() of None / Err) aborts the program
Panic == [kind |-> "Panic"]

Ok(v) == [kind |-> "Ok", value |-> v]

UnexpectedEndOfString == [kind |-> "UnexpectedEndOfString"]

\* index is previously_outputted_index.unwrap()
UnexpectedCharacter(c, index, expected) ==
  IF index = None THEN Panic
  ELSE [kind |-> "UnexpectedCharacter", character |-> c, index |-> index[1],
        expected_characters |-> expected]

ControlCharacter(c, index) ==
  IF index = None THEN Panic
  ELSE [kind |-> "ControlCharacter", character |-> c, index |-> index[1]]

UnexpectedNonHexCharacter(c, index) ==
  IF index = None THEN Panic
  ELSE [kind |-> "UnexpectedNonHexCharacter", character |-> c,
        index |-> index[1]]

\* A call returns [res, it]: the Result (or Panic) and the cursor it leaves.
\* `call?` followed by the rest of the function: an Err returns at once (and
\* a panic unwinds); on Ok the rest K runs on the call's value and cursor.
Try(r, K(_)) == IF r.res.kind # "Ok" THEN r ELSE K(r)

\* option.ok_or(err) on the [out, it] a cursor method returns
ok_or(r, err) ==
  IF r.out = None
    THEN [res |-> err, it |-> r.it]
    ELSE [res |-> Ok(r.out[1]), it |-> r.it]

expect_specific_char(it, expected) ==
  Try(ok_or(next_any(it), UnexpectedEndOfString), LAMBDA c :
    IF c.res.value = expected
      THEN [res |-> Ok(<< >>), it |-> c.it]
      ELSE [res |-> UnexpectedCharacter(c.res.value,
                      c.it.previously_outputted_index, <<expected>>),
            it |-> c.it])

expect_specific_char_ignore_whitespace(it, expected) ==
  Try(ok_or(next_non_whitespace(it), UnexpectedEndOfString), LAMBDA c :
    IF c.res.value = expected
      THEN [res |-> Ok(<< >>), it |-> c.it]
      ELSE [res |-> UnexpectedCharacter(c.res.value,
                      c.it.previously_outputted_index, <<expected>>),
            it |-> c.it])

\* ------------------------------------------------------------- JsonValue
\* the body is todo!()
JsonValue_parse(it) == [res |-> Panic, it |-> it]

\* ------------------------------------------------------------- JsonArray
\* the loop of JsonArray::parse, v the vector so far
RECURSIVE JsonArray_loop(_, _)
JsonArray_loop(it, v) ==
  Try(JsonValue_parse(it), LAMBDA value :
  Try(ok_or(next_non_whitespace(value.it), UnexpectedEndOfString),
      LAMBDA next_char :
    IF next_char.res.value = RBRACKET
      THEN [res |-> Ok(Append(v, value.res.value)), it |-> next_char.it]
    ELSE IF next_char.res.value = COMMA
      THEN JsonArray_loop(next_char.it, Append(v, value.res.value))
    ELSE [res |-> UnexpectedCharacter(next_char.res.value,
                    next_char.it.previously_outputted_index,
                    <<RBRACKET, COMMA>>),
          it |-> next_char.it]))

\* after `[`: is_empty, then the loop
JsonArray_after_open(m) ==
  IF m.out # None
    THEN [res |-> Ok(<< >>), it |-> m.it]
    ELSE JsonArray_loop(m.it, << >>)

JsonArray_parse(it) ==
  Try(expect_specific_char(it, LBRACKET), LAMBDA e :
    JsonArray_after_open(next_non_whitespace_if_eq(e.it, RBRACKET)))

\* ------------------------------------------------------------ JsonString
hex_digit_to_byte_upper_only(hex_digit) ==
  CASE hex_digit = 48 -> Some(0)
    [] hex_digit = 49 -> Some(1)
    [] hex_digit = 50 -> Some(2)
    [] hex_digit = 51 -> Some(3)
    [] hex_digit = 52 -> Some(4)
    [] hex_digit = 53 -> Some(5)
    [] hex_digit = 54 -> Some(6)
    [] hex_digit = 55 -> Some(7)
    [] hex_digit = 56 -> Some(8)
    [] hex_digit = 57 -> Some(9)
    [] hex_digit = 65 -> Some(10)
    [] hex_digit = 66 -> Some(11)
    [] hex_digit = 67 -> Some(12)
    [] hex_digit = 68 -> Some(13)
    [] hex_digit = 69 -> Some(14)
    [] hex_digit = 70 -> Some(15)
    [] OTHER -> None

hex_digit_to_byte(hex_digit) ==
  CASE hex_digit = 48 -> Some(0)
    [] hex_digit = 49 -> Some(1)
    [] hex_digit = 50 -> Some(2)
    [] hex_digit = 51 -> Some(3)
    [] hex_digit = 52 -> Some(4)
    [] hex_digit = 53 -> Some(5)
    [] hex_digit = 54 -> Some(6)
    [] hex_digit = 55 -> Some(7)
    [] hex_digit = 56 -> Some(8)
    [] hex_digit = 57 -> Some(9)
    [] hex_digit \in {97, 65} -> Some(10)
    [] hex_digit \in {98, 66} -> Some(11)
    [] hex_digit \in {99, 67} -> Some(12)
    [] hex_digit \in {100, 68} -> Some(13)
    [] hex_digit \in {101, 69} -> Some(14)
    [] hex_digit \in {102, 70} -> Some(15)
    [] OTHER -> None

\* a | b on unsigned integers
RECURSIVE BitOr(_, _)
BitOr(a, b) ==
  IF a = 0 THEN b
  ELSE IF b = 0 THEN a
  ELSE (IF a % 2 = 1 \/ b % 2 = 1 THEN 1 ELSE 0)
       + 2 * BitOr(a \div 2, b \div 2)

\* a << n on a w-bit unsigned integer, n < w
Shl(a, n, w) == (a * 2^n) % 2^w

\* hex_digit_to_byte(next_char).ok_or(UnexpectedNonHexCharacter {..})
hex_ok_or(c) ==
  IF hex_digit_to_byte(c.res.value) = None
    THEN [res |-> UnexpectedNonHexCharacter(c.res.value,
                    c.it.previously_outputted_index),
          it |-> c.it]
    ELSE [res |-> Ok(hex_digit_to_byte(c.res.value)[1]), it |-> c.it]

\* one digit of parse4hex: next_any().ok_or(..)?, hex_digit_to_byte, ok_or(..)?
parse4hex_digit(it) ==
  Try(ok_or(next_any(it), UnexpectedEndOfString), LAMBDA c : hex_ok_or(c))

\* b0 = (b00 << 4) | b01; b1 = (b10 << 4) | b11; ((b0 as u16) << 8) | b1
parse4hex_combine(b00, b01, b10, b11) ==
  BitOr(Shl(BitOr(Shl(b00, 4, 8), b01), 8, 16), BitOr(Shl(b10, 4, 8), b11))

parse4hex(it) ==
  Try(parse4hex_digit(it), LAMBDA b00 :
  Try(parse4hex_digit(b00.it), LAMBDA b01 :
  Try(parse4hex_digit(b01.it), LAMBDA b10 :
  Try(parse4hex_digit(b10.it), LAMBDA b11 :
    [res |-> Ok(parse4hex_combine(b00.res.value, b01.res.value,
                                  b10.res.value, b11.res.value)),
     it  |-> b11.it]))))

\* (0xD800..=0xDFFF).contains(&w0)
is_surrogate(w) == w \in 55296..57343

\* char::decode_utf16(units).next(): the first item of the decoder over the
\* code units, None at the end, Ok(scalar) or Err(unit)
decode_utf16_first(units) ==
  IF units = << >> THEN None
  ELSE IF ~is_surrogate(units[1]) THEN Some(Ok(units[1]))
  ELSE IF units[1] >= 56320
    THEN Some([kind |-> "DecodeUtf16Error", code |-> units[1]])
  ELSE IF Len(units) < 2
    THEN Some([kind |-> "DecodeUtf16Error", code |-> units[1]])
  ELSE IF units[2] \notin 56320..57343
    THEN Some([kind |-> "DecodeUtf16Error", code |-> units[1]])
  ELSE Some(Ok(65536 + (units[1] - 55296) * 1024 + (units[2] - 56320)))

\* .next().unwrap().unwrap() of the decoder: the scalar, or a panic
decode_unwrap(d) ==
  IF d = None THEN Panic
  ELSE IF d[1].kind # "Ok" THEN Panic
  ELSE d[1]

\* the branch escaped_character == 'u': the character to push
JsonString_unicode_escape(it) ==
  Try(parse4hex(it), LAMBDA w0 :
    IF is_surrogate(w0.res.value)
      THEN
        Try(expect_specific_char(w0.it, BACKSLASH), LAMBDA e1 :
        Try(expect_specific_char(e1.it, LOWER_U), LAMBDA e2 :
        Try(parse4hex(e2.it), LAMBDA w1 :
          [res |-> decode_unwrap(decode_utf16_first(
                     <<w0.res.value, w1.res.value>>)),
           it  |-> w1.it])))
      ELSE [res |-> decode_unwrap(decode_utf16_first(<<w0.res.value>>)),
            it  |-> w0.it])

\* the branch next_char == '\\': the character to push, an error, a panic
JsonString_escape(it) ==
  Try(ok_or(next_any(it), UnexpectedEndOfString), LAMBDA escaped_character :
    IF escaped_character.res.value = QUOTE
      THEN [res |-> Ok(QUOTE), it |-> escaped_character.it]
    ELSE IF escaped_character.res.value = BACKSLASH
      THEN [res |-> Ok(BACKSLASH), it |-> escaped_character.it]
    ELSE IF escaped_character.res.value = LOWER_B
      THEN [res |-> Panic, it |-> escaped_character.it]
    ELSE IF escaped_character.res.value = LOWER_F
      THEN [res |-> Panic, it |-> escaped_character.it]
    ELSE IF escaped_character.res.value = LOWER_N
      THEN [res |-> Ok(LF), it |-> escaped_character.it]
    ELSE IF escaped_character.res.value = LOWER_R
      THEN [res |-> Ok(CR), it |-> escaped_character.it]
    ELSE IF escaped_character.res.value = LOWER_T
      THEN [res |-> Ok(TAB), it |-> escaped_character.it]
    ELSE IF escaped_character.res.value = LOWER_U
      THEN JsonString_unicode_escape(escaped_character.it)
    ELSE [res |-> UnexpectedCharacter(escaped_character.res.value,
                    escaped_character.it.previously_outputted_index,
                    <<QUOTE, BACKSLASH, SLASH, LOWER_B, LOWER_F,
                      LOWER_N, LOWER_R, LOWER_T, LOWER_U>>),
          it |-> escaped_character.it])

\* char::is_control: the general category Cc
is_control(c) == c \in 0..31 \/ c \in 127..159

\* the loop of JsonString::parse, string the String so far
RECURSIVE JsonString_loop(_, _)
JsonString_loop(it, string) ==
  Try(ok_or(next_any(it), UnexpectedEndOfString), LAMBDA next_char :
    IF next_char.res.value = QUOTE
      THEN [res |-> Ok(string), it |-> next_char.it]
    ELSE IF next_char.res.value = BACKSLASH
      THEN Try(JsonString_escape(next_char.it), LAMBDA pushed :
             JsonString_loop(pushed.it, Append(string, pushed.res.value)))
    ELSE IF is_control(next_char.res.value)
      THEN [res |-> ControlCharacter(next_char.res.value,
                      next_char.it.previously_outputted_index),
            it |-> next_char.it]
    ELSE JsonString_loop(next_char.it, Append(string, next_char.res.value)))

JsonString_parse(it) ==
  Try(expect_specific_char(it, QUOTE), LAMBDA e :
    JsonString_loop(e.it, << >>))

\* ------------------------------------------------------------ JsonObject
\* HashMap::insert: the map is a function from keys to values
hashmap_insert(hashmap, key, value) ==
  [k \in (DOMAIN hashmap) \cup {key} |->
     IF k = key THEN value ELSE hashmap[k]]

\* the loop of JsonObject::parse
RECURSIVE JsonObject_loop(_, _, _)
JsonObject_loop(it, hashmap, is_first) ==
  Try(ok_or(next_non_whitespace(it), UnexpectedEndOfString),
      LAMBDA next_char :
    IF next_char.res.value = RBRACE
      THEN [res |-> Ok(hashmap), it |-> next_char.it]
    ELSE IF next_char.res.value # COMMA /\ ~is_first
      THEN [res |-> UnexpectedCharacter(next_char.res.value,
                      next_char.it.previously_outputted_index,
                      <<COMMA, RBRACE>>),
            it |-> next_char.it]
    ELSE
      Try(JsonString_parse(next_char.it), LAMBDA key :
      Try(expect_specific_char_ignore_whitespace(key.it, COLON), LAMBDA c :
      Try(JsonValue_parse(c.it), LAMBDA value :
        JsonObject_loop(value.it,
          hashmap_insert(hashmap, key.res.value, value.res.value),
          FALSE)))))

JsonObject_parse(it) ==
  Try(expect_specific_char(it, LBRACE), LAMBDA e :
    JsonObject_loop(e.it, << >>, TRUE))

\* ========================================================== state machine
\* input : the text the cursor was created over
\* i     : the cursor
\* op    : the last operation performed on the cursor, arg its argument
\* pre   : the cursor before that operation
\* out   : what the operation returned: an Option<char> for the three
\*         next_* methods, a Result (or Panic) for the others

\* all sequences over S of length at most n
SeqUpTo(S, n) == UNION {[1..k -> S] : k \in 0..n}

\* 107 is k, a plain character; 127 is the delete character
Alphabet ==
  {LF, LBRACKET, RBRACKET, LBRACE, RBRACE, QUOTE, BACKSLASH, SLASH,
   LOWER_B, 107, 127}

\* the literals the callers of the cursor pass as `expected`
Expected == {RBRACKET, QUOTE, 107}

OptionOps == {"next_any", "next_non_whitespace", "next_non_whitespace_if_eq"}

\* a panic unwinds through main: nothing runs after it
Aborted == op \notin OptionOps /\ op # "new" /\ out.kind = "Panic"

Init ==
  /\ input \in SeqUpTo(Alphabet, MaxLen)
  /\ i = new(input)
  /\ op = "new"
  /\ arg = 0
  /\ pre = new(input)
  /\ out = None

Did(name, a, r_out, r_it) ==
  /\ op' = name
  /\ arg' = a
  /\ pre' = i
  /\ out' = r_out
  /\ i' = r_it
  /\ UNCHANGED input

NextAny ==
  /\ ~Aborted
  /\ LET r == next_any(i) IN Did("next_any", 0, r.out, r.it)

NextNonWhitespace ==
  /\ ~Aborted
  /\ LET r == next_non_whitespace(i)
     IN  Did("next_non_whitespace", 0, r.out, r.it)

NextNonWhitespaceIfEq ==
  /\ ~Aborted
  /\ \E expected \in Expected :
       LET r == next_non_whitespace_if_eq(i, expected)
       IN  Did("next_non_whitespace_if_eq", expected, r.out, r.it)

ExpectSpecificChar ==
  /\ ~Aborted
  /\ \E expected \in Expected :
       LET r == expect_specific_char(i, expected)
       IN  Did("expect_specific_char", expected, r.res, r.it)

ExpectSpecificCharIgnoreWhitespace ==
  /\ ~Aborted
  /\ \E expected \in Expected :
       LET r == expect_specific_char_ignore_whitespace(i, expected)
       IN  Did("expect_specific_char_ignore_whitespace", expected,
               r.res, r.it)

ParseValue ==
  /\ ~Aborted
  /\ LET r == JsonValue_parse(i) IN Did("JsonValue::parse", 0, r.res, r.it)

ParseArray ==
  /\ ~Aborted
  /\ LET r == JsonArray_parse(i) IN Did("JsonArray::parse", 0, r.res, r.it)

ParseObject ==
  /\ ~Aborted
  /\ LET r == JsonObject_parse(i) IN Did("JsonObject::parse", 0, r.res, r.it)

ParseString ==
  /\ ~Aborted
  /\ LET r == JsonString_parse(i) IN Did("JsonString::parse", 0, r.res, r.it)

Next ==
  \/ NextAny
  \/ NextNonWhitespace
  \/ NextNonWhitespaceIfEq
  \/ ExpectSpecificChar
  \/ ExpectSpecificCharIgnoreWhitespace
  \/ ParseValue
  \/ ParseArray
  \/ ParseObject
  \/ ParseString

Spec == Init /\ [][Next]_vars

\* ------------------------------------------------ rules on a fresh cursor
Fresh == op = "new"

ParseArrayFresh == Fresh /\ ParseArray

ParseObjectFresh == Fresh /\ ParseObject

ParseStringFresh == Fresh /\ ParseString

\* SpecEmpty: a bracket, a short run of whitespace or k (107), a bracket
InitEmpty ==
  /\ \E open \in {LBRACKET, LBRACE}, close \in {RBRACKET, RBRACE},
        run \in SeqUpTo({SPACE, LF, CR, TAB, 107}, MaxWs) :
       input = <<open>> \o run \o <<close>>
  /\ i = new(input)
  /\ op = "new"
  /\ arg = 0
  /\ pre = new(input)
  /\ out = None

NextEmpty ==
  \/ ParseArrayFresh
  \/ ParseObjectFresh

SpecEmpty == InitEmpty /\ [][NextEmpty]_vars

\* SpecObject: `{"key":` and a short rest; the key is a run of k (107) and
\* x (120)
InitObject ==
  /\ \E key \in SeqUpTo({107, 120}, MaxBody),
        rest \in SeqUpTo({RBRACE, COMMA, QUOTE, 107}, MaxLen) :
       /\ key # << >>
       /\ input = <<LBRACE, QUOTE>> \o key \o <<QUOTE, COLON>> \o rest
  /\ i = new(input)
  /\ op = "new"
  /\ arg = 0
  /\ pre = new(input)
  /\ out = None

NextObject == ParseObjectFresh

SpecObject == InitObject /\ [][NextObject]_vars

\* SpecString: a quoted string with a short body
\* 107 is k; 31, 127 and 159 are control characters (Cc), 160 is not
StringAlphabet ==
  {QUOTE, BACKSLASH, SLASH, LOWER_B, LOWER_F, LOWER_N, LOWER_R, LOWER_T,
   107, LF, 31, SPACE, 127, 159, 160}

InitString ==
  /\ \E body \in SeqUpTo(StringAlphabet, MaxBody) :
       input = <<QUOTE>> \o body \o <<QUOTE>>
  /\ i = new(input)
  /\ op = "new"
  /\ arg = 0
  /\ pre = new(input)
  /\ out = None

NextString == ParseStringFresh

SpecString == InitString /\ [][NextString]_vars

\* SpecHex: "\uXXXX" for every four hex digits, and "\uXXXX\uYYYY" for a
\* first unit in the surrogate range and a second unit around it
HexDigits == (48..57) \cup (65..70) \cup (97..102)

PairDigits == {48, 56, 67, 100}

InitHex ==
  /\ \/ \E d \in [1..4 -> HexDigits] :
          input = <<QUOTE, BACKSLASH, LOWER_U>> \o d \o <<QUOTE>>
     \/ \E a \in [1..4 -> PairDigits], b \in [1..4 -> PairDigits] :
          /\ a[1] = 100
          /\ a[2] \in {56, 67}
          /\ input = <<QUOTE, BACKSLASH, LOWER_U>> \o a
                       \o <<BACKSLASH, LOWER_U>> \o b \o <<QUOTE>>
  /\ i = new(input)
  /\ op = "new"
  /\ arg = 0
  /\ pre = new(input)
  /\ out = None

NextHex == ParseStringFresh

SpecHex == InitHex /\ [][NextHex]_vars

\* ================================================================ claims
\* the number of characters taken from the source so far
Consumed(it) == Len(input) - Len(it.inner)

\* s without its leading JSON whitespace (space, \n, \r, \t)
RECURSIVE SkipWs(_)
SkipWs(s) ==
  IF s # << >> /\ Head(s) \in {SPACE, LF, CR, TAB} THEN SkipWs(Tail(s)) ELSE s

ResultOps ==
  {"expect_specific_char", "expect_specific_char_ignore_whitespace",
   "JsonValue::parse", "JsonArray::parse", "JsonObject::parse",
   "JsonString::parse"}

\* C1: after next_non_whitespace_if_eq(expected), when the first
\* non-whitespace character of what was left differs from expected, the
\* call reported no match, the whitespace before that character is gone and
\* the character is still there: the next consumption returns exactly it.
C1_NoMatchLeavesCharacter ==
  (/\ op = "next_non_whitespace_if_eq"
   /\ SkipWs(pre.inner) # << >>
   /\ Head(SkipWs(pre.inner)) # arg)
  => /\ out = None
     /\ i.inner = SkipWs(pre.inner)
     /\ next_any(i).out = Some(Head(SkipWs(pre.inner)))

\* C2: after any sequence of cursor operations the tracked index is None
\* iff nothing has been taken from the source, and otherwise it is the
\* 0-based position of the character taken last (so it never decreases).
C2_IndexTracksConsumed ==
  ~Aborted =>
    i.previously_outputted_index =
      IF Consumed(i) = 0 THEN None ELSE Some(Consumed(i) - 1)

\* C3: the Value rule returns a Value or a ParseError; it never aborts.
C3_ValueRuleReturns ==
  op = "JsonValue::parse" => out.kind # "Panic"

\* the substitution the String rule is to make for a simple escape
EscapeSubstitution(e) ==
  CASE e = QUOTE -> 34
    [] e = BACKSLASH -> 92
    [] e = SLASH -> 47
    [] e = LOWER_B -> 8
    [] e = LOWER_F -> 12
    [] e = LOWER_N -> 10
    [] e = LOWER_R -> 13
    [] e = LOWER_T -> 9

SimpleEscapes ==
  {QUOTE, BACKSLASH, SLASH, LOWER_B, LOWER_F, LOWER_N, LOWER_R, LOWER_T}

\* C4: a string whose body is plain characters around one simple escape
\* parses to the plain characters around the escape's substitution, for
\* each of the eight simple escapes.
C4_SimpleEscapesSubstitute ==
  op = "JsonString::parse" =>
    \A e \in SimpleEscapes, a, b \in SeqUpTo({107}, MaxBody) :
      input = <<QUOTE>> \o a \o <<BACKSLASH, e>> \o b \o <<QUOTE>>
        => out = Ok(a \o <<EscapeSubstitution(e)>> \o b)

\* the value of a hex digit, either letter case
DigitValue(c) ==
  IF c \in 48..57 THEN c - 48
  ELSE IF c \in 97..102 THEN c - 87
  ELSE c - 55

\* the code unit the four hex digits at input[k..k+3] give
UnitAt(k) ==
  4096 * DigitValue(input[k]) + 256 * DigitValue(input[k + 1])
    + 16 * DigitValue(input[k + 2]) + DigitValue(input[k + 3])

\* the input is "\uXXXX\uYYYY"
IsTwoEscapes ==
  /\ Len(input) = 14
  /\ SubSeq(input, 8, 9) = <<BACKSLASH, LOWER_U>>

\* the first unit is a surrogate that is not validly paired: a low one, or
\* a high one that no \u escape of a low one follows
NotValidlyPaired ==
  /\ UnitAt(4) \in 55296..57343
  /\ \/ UnitAt(4) >= 56320
     \/ ~IsTwoEscapes
     \/ UnitAt(10) \notin 56320..57343

\* C5: a \uXXXX escape that gives a surrogate not validly paired makes the
\* String rule return a ParseError: no abort, no string.
C5_LoneSurrogateIsError ==
  (op = "JsonString::parse" /\ NotValidlyPaired)
    => out.kind \notin {"Ok", "Panic"}

\* C6: a single unit outside the surrogate range decodes to exactly that
\* scalar, and the string "\uXXXX" whose digits (either case) give such a
\* unit w0 = 4096*d0 + 256*d1 + 16*d2 + d3 parses to the one character w0.
C6_NonSurrogateEscape ==
  (/\ op = "JsonString::parse"
   /\ Len(input) = 8
   /\ UnitAt(4) \notin 55296..57343)
  => /\ out = Ok(<<UnitAt(4)>>)
     /\ decode_utf16_first(<<UnitAt(4)>>) = Some(Ok(UnitAt(4)))

\* "ｚ" parsed to U+FF5A
C6_Witness ==
  /\ op = "JsonString::parse"
  /\ input = <<34, 92, 117, 70, 102, 53, 97, 34>>
  /\ out = Ok(<<65370>>)

\* the body of the string: the input without its two quotes
Body == SubSeq(input, 2, Len(input) - 1)

\* the position in the body of its first character below 0x20, 0 if none
RECURSIVE FirstBelow20(_, _)
FirstBelow20(s, k) ==
  IF k > Len(s) THEN 0
  ELSE IF s[k] < 32 THEN k
  ELSE FirstBelow20(s, k + 1)

\* C7: in a string whose body has no quote and no backslash, the first
\* character below 0x20 gives ControlCharacter with that character and its
\* index; with no such character every character of the body, 0x7F and
\* 0x80..0x9F included, is appended and the string is the body.
C7_ControlIffBelow20 ==
  (/\ op = "JsonString::parse"
   /\ \A k \in 1..Len(Body) : Body[k] \notin {QUOTE, BACKSLASH})
  => IF FirstBelow20(Body, 1) = 0
       THEN out = Ok(Body)
       ELSE out = [kind |-> "ControlCharacter",
                   character |-> Body[FirstBelow20(Body, 1)],
                   index |-> FirstBelow20(Body, 1)]

\* the text is `open`, zero or more whitespace characters, `close`
IsEmptyContainer(s, open, close) ==
  /\ Len(s) >= 2
  /\ s[1] = open
  /\ s[Len(s)] = close
  /\ \A k \in 2..(Len(s) - 1) : s[k] \in {SPACE, LF, CR, TAB}

\* C8: `{` whitespace* `}` parses to the empty object and `[` whitespace*
\* `]` to the empty sequence, the whole text consumed.
C8_EmptyContainers ==
  /\ (op = "JsonArray::parse" /\ IsEmptyContainer(input, LBRACKET, RBRACKET))
       => (out = Ok(<< >>) /\ i.inner = << >>)
  /\ (op = "JsonObject::parse" /\ IsEmptyContainer(input, LBRACE, RBRACE))
       => (out = Ok(<< >>) /\ i.inner = << >>)

\* `[ \t\n]` parsed to the empty sequence
C8_Witness ==
  /\ op = "JsonArray::parse"
  /\ input = <<LBRACKET, SPACE, TAB, LF, RBRACKET>>
  /\ out = Ok(<< >>)

\* C9: an error that carries an index names the character at that 0-based
\* position of the input: the character taken last from the source.
C9_ErrorIndexIsPosition ==
  (/\ op \in ResultOps
   /\ out.kind \in {"UnexpectedCharacter", "ControlCharacter",
                    "UnexpectedNonHexCharacter"})
  => /\ out.index = Consumed(i) - 1
     /\ input[out.index + 1] = out.character

\* C10: the Object rule on `{"k...":` reads the key from its opening quote
\* to its closing quote and goes on to the `:`: it reports no
\* UnexpectedCharacter on the key's first character (index 2).
C10_KeyReadFromOpeningQuote ==
  op = "JsonObject::parse"
    => ~(/\ out.kind = "UnexpectedCharacter"
         /\ out.index = 2
         /\ out.character = input[3]
         /\ out.expected_characters = <<QUOTE>>)

====
